---- MODULE Spec2Model ----
(***************************************************************************)
(* Portfolio Tracker (src/main.py): one Streamlit script that is re-run    *)
(* top to bottom on every interaction.  A run is modelled as a sequence of *)
(* steps (window derivation, benchmark fetch, one step per holding,        *)
(* aggregation and rendering, the Add Stock form).                         *)
(*                                                                         *)
(* Money is fixed point, in thousandths of a rupee, so that round(x, 2)    *)
(* is a real conversion.  Percentages are kept in hundredths of a percent. *)
(* A pandas Series is a function from dates (day ordinals) to cells; a     *)
(* cell is <<v>> for a value and <<>> for NaN.                             *)
(***************************************************************************)
EXTENDS Integers, Sequences, FiniteSets, TLC

\* ---------------------------------------------------------------- bounds
MaxDates == 3        \* trading days the data source knows, ending today
MaxHoldings == 2     \* cap on the length of the session portfolio

\* ------------------------------------------------------------- constants
BENCHMARK == "^NSEI"
PERIOD_MAP == [p \in {"5D", "1M", "6M", "1Y", "3Y"} |->
                 CASE p = "5D" -> 5 [] p = "1M" -> 21 [] p = "6M" -> 126
                   [] p = "1Y" -> 252 [] OTHER -> 756]
MONTHS == <<"Jan", "Feb", "Mar", "Apr", "May", "Jun",
            "Jul", "Aug", "Sep", "Oct", "Nov", "Dec">>
FirstYear == 2022

\* load_nifty500: company name -> symbol with the ".NS" suffix
NIFTY_500 == [n \in {"Infosys", "TCS"} |->
                IF n = "Infosys" THEN "INFY.NS" ELSE "TCS.NS"]

\* ------------------------------------------------------- generic helpers
Max(S) == CHOOSE x \in S : \A y \in S : y <= x
Min(S) == CHOOSE x \in S : \A y \in S : x <= y
Abs(x) == IF x < 0 THEN -x ELSE x

RECURSIVE SumOver(_, _)
\* sum of f[x] for x in the finite set S
SumOver(f, S) == IF S = {} THEN 0
                 ELSE LET x == CHOOSE y \in S : TRUE
                      IN f[x] + SumOver(f, S \ {x})

\* round-half-even of n/d to an integer, d > 0 (Python's round())
RoundDiv(n, d) ==
  LET q == n \div d
      r == n % d
  IN IF 2 * r < d THEN q
     ELSE IF 2 * r > d THEN q + 1
     ELSE IF q % 2 = 0 THEN q ELSE q + 1

\* round(x, 2) on an amount held in thousandths
Round2(x) == 10 * RoundDiv(x, 10)

RECURSIVE ScaledDiv(_, _, _)
\* <<floor(r * 10^k / b), remainder>> for 0 <= r < b, by long division
ScaledDiv(r, b, k) ==
  IF k = 0 THEN <<0, r>>
  ELSE LET p == ScaledDiv(r, b, k - 1)
           t == p[2] * 10
       IN <<p[1] * 10 + t \div b, t % b>>

\* round((a / b - 1) * 100, 2) in hundredths of a percent, b > 0:
\* (a - b) * 10000 / b rounded half-even, computed without wide intermediates
PctChange(a, b) ==
  LET n == a - b
      p == ScaledDiv(n % b, b, 4)
      fl == (n \div b) * 10000 + p[1]
  IN IF 2 * p[2] < b THEN fl
     ELSE IF 2 * p[2] > b THEN fl + 1
     ELSE IF fl % 2 = 0 THEN fl ELSE fl + 1

\* ------------------------------------------------------ datetime.date
IsLeap(y) == (y % 4 = 0 /\ y % 100 # 0) \/ y % 400 = 0
DaysInMonth(y, m) ==
  IF m = 2 THEN (IF IsLeap(y) THEN 29 ELSE 28)
  ELSE IF m \in {4, 6, 9, 11} THEN 30 ELSE 31
\* date(y, m, d) raises ValueError unless this holds
ValidDate(y, m, d) == m \in 1..12 /\ d \in 1..DaysInMonth(y, m)
MkDate(y, m, d) == [year |-> y, month |-> m, day |-> d]

RECURSIVE DaysBeforeYear(_)
DaysBeforeYear(y) == IF y <= FirstYear THEN 0
                     ELSE DaysBeforeYear(y - 1) + (IF IsLeap(y - 1) THEN 366 ELSE 365)
RECURSIVE DaysBeforeMonth(_, _)
DaysBeforeMonth(y, m) == IF m <= 1 THEN 0
                         ELSE DaysBeforeMonth(y, m - 1) + DaysInMonth(y, m - 1)
\* day number of a date, counted from 1 Jan FirstYear; date order is ordinal order
Ordinal(dt) == DaysBeforeYear(dt.year) + DaysBeforeMonth(dt.year, dt.month) + dt.day - 1

\* index of a month label in MONTHS, plus one
MonthNumber(label) == CHOOSE k \in 1..Len(MONTHS) : MONTHS[k] = label

\* ------------------------------------------------------- pandas Series
NaN == <<>>
Val(c) == c[1]
Size(s) == Cardinality(DOMAIN s)
EmptySeries == [d \in {} |-> NaN]
IlocLast(s) == s[Max(DOMAIN s)]
IlocPrev_First(s) == s[Min(DOMAIN s)]
IlocPrev(s) == s[Max(DOMAIN s \ {Max(DOMAIN s)})]
IlocFirst(s) == s[Min(DOMAIN s)]

\* Series.reindex(idx): values on idx, NaN where the series has no such date
Reindex(s, idx) == [d \in idx |-> IF d \in DOMAIN s THEN s[d] ELSE NaN]

Ffill_None(s) == s
\* Series.ffill(): a NaN cell takes the last earlier non-NaN cell, if any
Ffill(s) ==
  [d \in DOMAIN s |->
     IF s[d] # NaN THEN s[d]
     ELSE LET prev == {e \in DOMAIN s : e < d /\ s[e] # NaN}
          IN IF prev = {} THEN NaN ELSE s[Max(prev)]]

\* Series.dropna()
Dropna(s) == [d \in {e \in DOMAIN s : s[e] # NaN} |-> s[d]]

\* close * qty
Scale(s, q) == [d \in DOMAIN s |-> IF s[d] = NaN THEN NaN ELSE <<Val(s[d]) * q>>]

\* pd.concat(series, axis=1).sum(axis=1): union of the indexes; sum() skips NaN,
\* so a row with missing columns is the sum of the columns that are present
ConcatSum(ss) ==
  LET idx == UNION {DOMAIN ss[k] : k \in DOMAIN ss}
      col(d) == [k \in DOMAIN ss |->
                   IF d \in DOMAIN ss[k] /\ ss[k][d] # NaN THEN Val(ss[k][d]) ELSE 0]
  IN [d \in idx |-> <<SumOver(col(d), DOMAIN ss)>>]

\* ------------------------------------------------------------- state
VARIABLES
  today,            \* date.today()
  market,           \* what the data source holds: symbol -> close series
  portfolio,        \* st.session_state.portfolio
  pc,               \* position of the script run
  period,           \* the Timeframe radio
  start, end,       \* query window (day ordinals)
  nifty,            \* benchmark series, <<>> before it is fetched
  dates,            \* nifty.index at line 86
  close,            \* the loop's close: fetch result, then the aligned series
  portfolio_series, \* list of close * qty
  rows,             \* table rows
  invested_total,
  portfolio_value,
  kpi,              \* <<>> or <<record>> : the KPI strip
  chart,            \* <<>> or <<record>> : the comparison chart
  table,            \* <<>> or <<rows>>   : the dataframe widget
  warning,          \* <<>> or <<message, stock>>
  calls,            \* history: gateway calls of this run, in order
  run_portfolio,    \* history: the portfolio when this run began
  form_ran          \* history: the Add Stock section was executed in this run

vars == <<today, market, portfolio, pc, period, start, end, nifty, dates, close,
          portfolio_series, rows, invested_total, portfolio_value, kpi, chart,
          table, warning, calls, run_portfolio, form_ran>>

\* ------------------------------------------------------- data source
Symbols == {NIFTY_500[n] : n \in DOMAIN NIFTY_500}
\* the trading days the source may have data for: the last MaxDates days up to t
TradingDays(t) == (Ordinal(t) - MaxDates + 1) .. Ordinal(t)

\* closing prices, in thousandths
BenchClose(d) == 22000000 + 12345 * (d % 7)
StockClose(symbol, d, t) ==
  IF symbol = "INFY.NS" THEN (IF d = Ordinal(t) THEN 95000 ELSE 100000)
  ELSE 95004 + 1111 * (Ordinal(t) - d)
CloseOf(symbol, d, t) == IF symbol = BENCHMARK THEN BenchClose(d) ELSE StockClose(symbol, d, t)

\* every content of the data source: each symbol has a close on some of the trading days
Markets(t) ==
  {[s \in Symbols \cup {BENCHMARK} |-> [d \in D[s] |-> <<CloseOf(s, d, t)>>]] :
     D \in [Symbols \cup {BENCHMARK} -> SUBSET TradingDays(t)]}

\* yf.download(symbol, start=, end=): rows of the source inside the window
\* (both ends taken inclusive, which covers what an end-exclusive source
\* returns); an empty frame when the source is down (up = FALSE)
Download(symbol, from, to, up) ==
  IF up THEN [d \in {e \in DOMAIN market[symbol] : from <= e /\ e <= to} |-> market[symbol][d]]
  ELSE EmptySeries

None == [none |-> TRUE, data |-> EmptySeries]
Some(s) == [none |-> FALSE, data |-> s]

\* fetch_series
fetch_series(symbol, from, to, up) ==
  LET df == Download(symbol, from, to, up)
  IN IF DOMAIN df = {} THEN None ELSE Some(df)

\* fetch_price: rounded last close of the trailing two days, NaN cell for None
fetch_price(symbol, up) ==
  IF symbol = "" THEN NaN
  ELSE LET df == Download(symbol, Ordinal(today) - 2, Ordinal(today), up)
       IN IF DOMAIN df = {} THEN NaN ELSE <<Round2(Val(IlocLast(df)))>>

\* fetch_52w: rounded extremes of the trailing year (a day's high and low are
\* taken at its close); <<NaN, NaN>> for (None, None)
fetch_52w(symbol, up) ==
  LET df == Download(symbol, Ordinal(today) - 365, Ordinal(today), up)
      v == {Val(df[d]) : d \in DOMAIN df}
  IN IF DOMAIN df = {} THEN <<NaN, NaN>>
     ELSE <<(<<Round2(Max(v))>>), (<<Round2(Min(v))>>)>>

\* ------------------------------------------------------- engine helpers
\* min(s["Buy Date"] for s in portfolio), as a day ordinal
EarliestBuy(p) == Min({Ordinal(p[k].BuyDate) : k \in DOMAIN p})

LowerBound_NoSlack(t, per) == Ordinal(t) - PERIOD_MAP[per]
\* today - timedelta(days=PERIOD_MAP[period] * 2)
LowerBound(t, per) == Ordinal(t) - PERIOD_MAP[per] * 2

\* start = max(earliest_buy, lower bound)
WindowStart(p, t, per) ==
  LET e == EarliestBuy(p)
      l == LowerBound(t, per)
  IN IF e >= l THEN e ELSE l

\* end = today
WindowEnd(t) == Ordinal(t)

BenchmarkUnavailable_NoLen(r) == r.none
\* nifty is None or len(nifty) < 2
BenchmarkUnavailable(r) == r.none \/ Size(r.data) < 2

\* close.reindex(dates).ffill().dropna()
Align(cl, idx) == Dropna(Ffill(Reindex(cl, idx)))

InsufficientHoldingData_OffByOne(cl) == Size(cl) < 1
\* len(close) < 2
InsufficientHoldingData(cl) == Size(cl) < 2

\* one table row
RowOf(s, cl, w52) ==
  LET qty == s.Qty
      buy == s.BuyPrice
      invested == Round2(qty * buy)
      current == Round2(qty * Val(IlocLast(cl)))
  IN [Stock |-> s.Stock, Qty |-> qty, BuyPrice |-> buy,
      CMP |-> Round2(Val(IlocLast(cl))),
      Invested |-> invested, Current |-> current,
      PL |-> Round2(current - invested),
      PLPct |-> PctChange(current, invested),
      High52 |-> w52[1], Low52 |-> w52[2]]

PortfolioValue_LeavesOut(ss) == Dropna(ConcatSum(Tail(ss)))
\* pd.concat(portfolio_series, axis=1).sum(axis=1).dropna()
PortfolioValue(ss) == Dropna(ConcatSum(ss))

\* len(portfolio_value) < 2
InsufficientAlignedData(pv) == Size(pv) < 2

RealignBenchmark_Skip(n, pv) == n
\* nifty.reindex(portfolio_value.index).ffill()
RealignBenchmark(n, pv) == Ffill(Reindex(n, DOMAIN pv))

\* round(float(ret.iloc[-1]), 2) of (s / s.iloc[0] - 1) * 100, as a cell
LastReturn(s) ==
  IF IlocFirst(s) = NaN \/ IlocLast(s) = NaN THEN NaN
  ELSE <<PctChange(Val(IlocLast(s)), Val(IlocFirst(s)))>>

\* the KPI block
Kpis(pv, inv, n) ==
  LET last == Val(IlocLast(pv))
      prev == Val(IlocPrev(pv))
  IN [value |-> last,
      invested |-> inv,
      total_pl |-> Round2(last - inv),
      total_pl_pct |-> PctChange(last, inv),
      day_pl |-> Round2(last - prev),
      day_pct |-> PctChange(last, prev),
      port_last |-> LastReturn(pv),
      nifty_last |-> LastReturn(n)]

st_stop_Continue == "form"
\* st.stop(): the run ends here, nothing below it is executed
st_stop == "stopped"

\* ------------------------------------------------------------ actions
Idle == {"init", "done", "stopped", "crashed"}

ResetRun ==
  /\ nifty' = <<>>
  /\ dates' = {}
  /\ close' = None
  /\ portfolio_series' = <<>>
  /\ rows' = <<>>
  /\ invested_total' = 0
  /\ portfolio_value' = <<>>
  /\ kpi' = <<>>
  /\ chart' = <<>>
  /\ table' = <<>>
  /\ warning' = <<>>
  /\ calls' = <<>>
  /\ run_portfolio' = portfolio
  /\ form_ran' = FALSE

\* a run with an empty portfolio skips the engine block (line 72)
RerunEmpty ==
  /\ pc \in Idle
  /\ portfolio = <<>>
  /\ ResetRun
  /\ pc' = "form"
  /\ UNCHANGED <<today, market, portfolio, period, start, end>>

\* a run with holdings: timeframe radio and window derivation (lines 74-79)
RerunEngine(per) ==
  /\ pc \in Idle
  /\ portfolio # <<>>
  /\ ResetRun
  /\ period' = per
  /\ start' = WindowStart(portfolio, today, per)
  /\ end' = WindowEnd(today)
  /\ pc' = "benchmark"
  /\ UNCHANGED <<today, market, portfolio>>

\* lines 81-89
FetchBenchmark(up) ==
  /\ pc = "benchmark"
  /\ LET r == fetch_series(BENCHMARK, start, end, up)
     IN /\ calls' = Append(calls, [symbol |-> BENCHMARK, start |-> start, end |-> end])
        /\ nifty' = r.data
        /\ IF BenchmarkUnavailable(r)
           THEN /\ warning' = <<"NIFTY data not available for selected period.", "">>
                /\ pc' = st_stop
                /\ UNCHANGED dates
           ELSE /\ dates' = DOMAIN r.data
                /\ pc' = "holdings"
                /\ UNCHANGED warning
  /\ UNCHANGED <<today, market, portfolio, period, start, end, close, portfolio_series, rows,
                 invested_total, portfolio_value, kpi, chart, table, run_portfolio, form_ran>>

\* one iteration of the loop at lines 91-119
FetchHolding(up, up52) ==
  /\ pc = "holdings"
  /\ Len(rows) < Len(portfolio)
  /\ LET s == portfolio[Len(rows) + 1]
         r == fetch_series(s.Symbol, start, end, up)
         aligned == Align(r.data, dates)
     IN /\ calls' = Append(calls, [symbol |-> s.Symbol, start |-> start, end |-> end])
        /\ IF r.none
           THEN /\ close' = None
                /\ warning' = <<"No market data for", s.Stock>>
                /\ pc' = st_stop
                /\ UNCHANGED <<rows, portfolio_series, invested_total>>
           ELSE IF InsufficientHoldingData(aligned)
           THEN /\ close' = Some(aligned)
                /\ warning' = <<"Not enough data for", s.Stock>>
                /\ pc' = st_stop
                /\ UNCHANGED <<rows, portfolio_series, invested_total>>
           ELSE LET row == RowOf(s, aligned, fetch_52w(s.Symbol, up52))
                IN /\ close' = Some(aligned)
                   /\ rows' = Append(rows, row)
                   /\ portfolio_series' = Append(portfolio_series, Scale(aligned, s.Qty))
                   /\ invested_total' = invested_total + row.Invested
                   /\ UNCHANGED <<warning, pc>>
  /\ UNCHANGED <<today, market, portfolio, period, start, end, nifty, dates,
                 portfolio_value, kpi, chart, table, run_portfolio, form_ran>>

\* lines 121-193: aggregation, benchmark realignment, KPI strip, chart, table
Aggregate ==
  /\ pc = "holdings"
  /\ Len(rows) = Len(portfolio)
  /\ LET pv == PortfolioValue(portfolio_series)
         n == RealignBenchmark(nifty, pv)
     IN /\ portfolio_value' = pv
        /\ IF InsufficientAlignedData(pv)
           THEN /\ warning' = <<"Not enough aligned market data.", "">>
                /\ pc' = st_stop
                /\ UNCHANGED <<nifty, kpi, chart, table>>
           ELSE /\ nifty' = n
                /\ kpi' = <<Kpis(pv, invested_total, n)>>
                /\ chart' = <<[port_ret |-> DOMAIN pv, nifty_ret |-> DOMAIN n]>>
                /\ table' = <<rows>>
                /\ pc' = "form"
                /\ UNCHANGED warning
  /\ UNCHANGED <<today, market, portfolio, period, start, end, dates, close, portfolio_series,
                 rows, invested_total, calls, run_portfolio, form_ran>>

\* what the Add Stock form offers (lines 222-240)
FormStocks == {""} \cup DOMAIN NIFTY_500
Quantities == {1, 3}
TypedPrices == {-5000, 0, 95000}
FormDays == {29, 31}
FormMonths == {"Feb", "Dec"}
FormYears == FirstYear .. today.year

\* NIFTY_500.get(stock)
SymbolOf(stock) == IF stock \in DOMAIN NIFTY_500 THEN NIFTY_500[stock] ELSE ""

\* value=cmp or 0.0
Prefill(cmp) == IF cmp = NaN THEN 0 ELSE Val(cmp)

\* if stock and buy_price > 0
Accepted(stock, buy_price) == stock # "" /\ buy_price > 0

FormDone(next) ==
  /\ pc = "form"
  /\ pc' = next
  /\ form_ran' = TRUE
  /\ UNCHANGED <<today, market, period, start, end, nifty, dates, close, portfolio_series, rows,
                 invested_total, portfolio_value, kpi, chart, table, warning, calls,
                 run_portfolio>>

\* the button is not pressed: the run ends after drawing the form
FormIdle ==
  /\ FormDone("done")
  /\ UNCHANGED portfolio

\* the button is pressed but the guard at line 243 is false
FormRejected(stock, buy_price) ==
  /\ ~Accepted(stock, buy_price)
  /\ FormDone("done")
  /\ UNCHANGED portfolio

\* the button is pressed and date(year, month, day) raises ValueError
FormValueError(stock, buy_price, year, month, day) ==
  /\ Accepted(stock, buy_price)
  /\ ~ValidDate(year, MonthNumber(month), day)
  /\ FormDone("crashed")
  /\ UNCHANGED portfolio

\* the button is pressed and the holding is appended, then st.rerun()
FormAppend(stock, qty, buy_price, year, month, day) ==
  /\ Accepted(stock, buy_price)
  /\ ValidDate(year, MonthNumber(month), day)
  /\ Len(portfolio) < MaxHoldings
  /\ portfolio' = Append(portfolio,
        [Stock |-> stock, Symbol |-> SymbolOf(stock), Qty |-> qty,
         BuyPrice |-> buy_price, BuyDate |-> MkDate(year, MonthNumber(month), day)])
  /\ FormDone("done")

AddStock ==
  \E stock \in FormStocks, qty \in Quantities, up \in BOOLEAN :
    \E buy_price \in TypedPrices \cup {Prefill(fetch_price(SymbolOf(stock), up))} :
      \E year \in FormYears, month \in FormMonths, day \in FormDays :
        \/ FormRejected(stock, buy_price)
        \/ FormValueError(stock, buy_price, year, month, day)
        \/ FormAppend(stock, qty, buy_price, year, month, day)

Engine ==
  \/ \E per \in DOMAIN PERIOD_MAP : RerunEngine(per)
  \/ \E up \in BOOLEAN : FetchBenchmark(up)
  \/ \E up \in BOOLEAN, up52 \in BOOLEAN : FetchHolding(up, up52)
  \/ Aggregate

\* ------------------------------------------------- the whole session
Todays == {MkDate(2022, 12, 30)}

\* data sources of the session: the benchmark trades every day, a stock either
\* trades every day or was listed today
SessionMarkets(t) ==
  {m \in Markets(t) :
     /\ DOMAIN m[BENCHMARK] = TradingDays(t)
     /\ \A s \in Symbols : DOMAIN m[s] \in {TradingDays(t), {Ordinal(t)}}}

InitRun ==
  /\ pc = "init"
  /\ period = "5D"
  /\ start = 0
  /\ end = 0
  /\ nifty = <<>>
  /\ dates = {}
  /\ close = None
  /\ portfolio_series = <<>>
  /\ rows = <<>>
  /\ invested_total = 0
  /\ portfolio_value = <<>>
  /\ kpi = <<>>
  /\ chart = <<>>
  /\ table = <<>>
  /\ warning = <<>>
  /\ calls = <<>>
  /\ run_portfolio = portfolio
  /\ form_ran = FALSE

Init ==
  /\ today \in Todays
  /\ market \in SessionMarkets(today)
  /\ portfolio = <<>>
  /\ InitRun

Next == RerunEmpty \/ Engine \/ FormIdle \/ AddStock

Spec == Init /\ [][Next]_vars

\* ------------------------------------- the engine over every data source
EngineToday == MkDate(2024, 3, 1)
OldInfosys == [Stock |-> "Infosys", Symbol |-> "INFY.NS", Qty |-> 10,
               BuyPrice |-> 94004, BuyDate |-> MkDate(2022, 12, 31)]
RecentTCS == [Stock |-> "TCS", Symbol |-> "TCS.NS", Qty |-> 3,
              BuyPrice |-> 94004, BuyDate |-> MkDate(2024, 2, 29)]
OldTCS == [RecentTCS EXCEPT !.BuyDate = MkDate(2023, 12, 31)]
EnginePortfolios == {<<OldInfosys>>, <<RecentTCS>>, <<OldInfosys, OldTCS>>, <<OldTCS, OldInfosys>>}

EngineInit ==
  /\ today = EngineToday
  /\ market \in Markets(today)
  /\ portfolio \in EnginePortfolios
  /\ InitRun

EngineNext == Engine \/ FormIdle

EngineSpec == EngineInit /\ [][EngineNext]_vars

\* ------------------------------------------------------------ properties
NotEnoughAligned == <<"Not enough aligned market data.", "">>
BenchmarkWarning == <<"NIFTY data not available for selected period.", "">>
Success == kpi # <<>>
\* the holdings the run is valuing
Holdings == 1 .. Len(run_portfolio)
LastDate(s) == Max(DOMAIN s)
PrevDate(s) == Max(DOMAIN s \ {LastDate(s)})
\* closes of a symbol the source has on the benchmark's dates
OnBenchmark(symbol) == DOMAIN market[symbol] \cap dates
\* the close of a symbol carried to date d of the benchmark
CarriedClose(symbol, d) ==
  Val(market[symbol][Max({e \in OnBenchmark(symbol) : e <= d})])
\* what alignment onto the benchmark's dates should give for a symbol, times q
ExpectedAligned(symbol, q) ==
  IF OnBenchmark(symbol) = {} THEN EmptySeries
  ELSE [d \in {e \in dates : e >= Min(OnBenchmark(symbol))} |->
          <<q * CarriedClose(symbol, d)>>]

\* C1: a run either stops with a warning and shows no KPI, chart or table, or
\* shows them with one row per holding in portfolio order, every holding
\* having at least 2 aligned points, total invested summed over all rows and
\* the final value summed over every holding's quantity times its last close.
C1_AllOrNothing ==
  /\ warning # <<>> => (pc = "stopped" /\ kpi = <<>> /\ chart = <<>> /\ table = <<>>)
  /\ ~Success => (chart = <<>> /\ table = <<>>)
  /\ Success =>
       /\ warning = <<>>
       /\ chart # <<>>
       /\ table = <<rows>>
       /\ Len(rows) = Len(run_portfolio)
       /\ Len(portfolio_series) = Len(run_portfolio)
       /\ \A k \in Holdings :
            /\ rows[k].Stock = run_portfolio[k].Stock
            /\ rows[k].Qty = run_portfolio[k].Qty
            /\ Size(portfolio_series[k]) >= 2
       /\ kpi[1].invested = SumOver([k \in Holdings |-> rows[k].Invested], Holdings)
       /\ kpi[1].value =
            SumOver([k \in Holdings |->
                       run_portfolio[k].Qty * CarriedClose(run_portfolio[k].Symbol, Max(dates))],
                    Holdings)
C1_Witness == Success /\ Len(rows) = 2 /\ rows[1].Stock # rows[2].Stock

\* C2: in a successful result every date of the portfolio value series is a
\* date on which every holding has an aligned value, and the value there is
\* the sum over all holdings of quantity x close.
C2_InnerJoin ==
  Success =>
    \A d \in DOMAIN portfolio_value :
      /\ \A k \in Holdings : d \in DOMAIN portfolio_series[k]
      /\ Val(portfolio_value[d]) =
           SumOver([k \in Holdings |-> Val(portfolio_series[k][d])], Holdings)

\* C3 as stated (Scenario B): when every holding passed its own check and the
\* holdings' trading histories in the window share fewer than 2 dates, the run
\* stops with "Not enough aligned market data".
AllHoldingsPassed == run_portfolio # <<>> /\ Len(rows) = Len(run_portfolio) /\ pc # "holdings"
RawOverlap ==
  {d \in start .. end : \A k \in Holdings : d \in DOMAIN market[run_portfolio[k].Symbol]}
C3_Original ==
  (AllHoldingsPassed /\ Len(run_portfolio) >= 2 /\ Cardinality(RawOverlap) < 2)
    => warning = NotEnoughAligned
\* C3 amended: the "Not enough aligned market data" stop is never reached; once
\* every holding has passed its own check the combined series has at least 2
\* points, as many as the longest aligned holding series.
C3_Amended ==
  /\ warning # NotEnoughAligned
  /\ AllHoldingsPassed =>
       /\ Size(portfolio_value) >= 2
       /\ \A k \in Holdings : Size(portfolio_value) >= Size(portfolio_series[k])
C3_Witness ==
  Success /\ Len(run_portfolio) >= 2 /\ Cardinality(RawOverlap) = 1

\* C4: every holding of the session portfolio has quantity > 0, buy price > 0
\* and a buy date that is a valid calendar date not later than today.
C4_HoldingInvariant ==
  \A k \in DOMAIN portfolio :
    /\ portfolio[k].Qty > 0
    /\ portfolio[k].BuyPrice > 0
    /\ ValidDate(portfolio[k].BuyDate.year, portfolio[k].BuyDate.month, portfolio[k].BuyDate.day)
    /\ Ordinal(portfolio[k].BuyDate) <= Ordinal(today)

\* C5: every history query of a run, for the benchmark and for each holding,
\* uses start = max(earliest buy date, today - 2 x lookback days) and end = today.
ClaimedLookback(per) ==
  CASE per = "5D" -> 5 [] per = "1M" -> 21 [] per = "6M" -> 126
    [] per = "1Y" -> 252 [] per = "3Y" -> 756
ClaimedStart ==
  LET buys == {Ordinal(run_portfolio[k].BuyDate) : k \in DOMAIN run_portfolio}
      lower == Ordinal(today) - 2 * ClaimedLookback(period)
  IN IF Min(buys) > lower THEN Min(buys) ELSE lower
C5_Window ==
  \A k \in DOMAIN calls :
    /\ calls[k].start = ClaimedStart
    /\ calls[k].end = Ordinal(today)
    /\ calls[k].symbol = IF k = 1 THEN BENCHMARK ELSE run_portfolio[k - 1].Symbol
C5_Witness ==
  /\ Len(calls) >= 2
  /\ calls[2].start = Ordinal(run_portfolio[1].BuyDate)
  /\ calls[2].start > Ordinal(today) - 2 * ClaimedLookback(period)

\* C6: in a successful result the benchmark series has exactly the dates of
\* the portfolio value series, a value at each of them, and both series have
\* at least 2 points.
C6_AlignedCalendars ==
  Success =>
    /\ DOMAIN nifty = DOMAIN portfolio_value
    /\ \A d \in DOMAIN nifty : nifty[d] # NaN
    /\ Size(portfolio_value) >= 2
    /\ Size(nifty) >= 2
    /\ chart[1].port_ret = chart[1].nifty_ret
C6_Witness == Success /\ DOMAIN portfolio_value # dates

\* C7: when the benchmark history has no or fewer than 2 points the run stops
\* with the benchmark warning, having made no holding query and produced no
\* row, KPI, chart or table.
C7_BenchmarkFailure ==
  (Len(calls) >= 1 /\ Size(nifty) < 2) =>
    /\ pc = "stopped"
    /\ warning = BenchmarkWarning
    /\ Len(calls) = 1
    /\ calls[1].symbol = BENCHMARK
    /\ rows = <<>>
    /\ portfolio_series = <<>>
    /\ kpi = <<>> /\ chart = <<>> /\ table = <<>>
C7_Witness == warning = BenchmarkWarning /\ Size(nifty) = 1

\* C8: each holding's series, taken on the benchmark's dates, is carried
\* forward over the benchmark dates it lacks and starts at its first close on
\* a benchmark date (a contiguous suffix of the benchmark dates); a holding
\* stops the run with "Not enough data" exactly when fewer than 2 points
\* remain and with "No market data" when its fetch returned nothing.
C8_PerHoldingAlignment ==
  /\ \A k \in DOMAIN portfolio_series :
       /\ portfolio_series[k] = ExpectedAligned(run_portfolio[k].Symbol, run_portfolio[k].Qty)
       /\ Size(portfolio_series[k]) >= 2
  /\ (pc = "stopped" /\ Len(calls) >= 2) =>
       LET s == run_portfolio[Len(rows) + 1]
       IN /\ warning[2] = s.Stock
          /\ close.none <=> warning[1] = "No market data for"
          /\ ~close.none =>
               /\ warning[1] = "Not enough data for"
               /\ close.data = ExpectedAligned(s.Symbol, 1)
               /\ Size(close.data) < 2
C8_Witness ==
  \E k \in DOMAIN portfolio_series :
    /\ \E d \in DOMAIN portfolio_series[k] : d \notin DOMAIN market[run_portfolio[k].Symbol]
    /\ \E d \in dates : d \notin DOMAIN portfolio_series[k]

\* C9 as stated: the KPI amounts are the exact differences and sums.
ExactInvested == SumOver([k \in Holdings |-> run_portfolio[k].Qty * run_portfolio[k].BuyPrice], Holdings)
LastValue == Val(portfolio_value[LastDate(portfolio_value)])
PrevValue == Val(portfolio_value[PrevDate(portfolio_value)])
Rounded2(x, exact) == x % 10 = 0 /\ Abs(x - exact) <= 5
C10_FailedRunFrame ==
  /\ [](warning # <<>> => (pc = "stopped" /\ ~form_ran /\ portfolio = run_portfolio))
  /\ [][portfolio' # portfolio =>
          /\ pc = "form"
          /\ warning = <<>>
          /\ portfolio # <<>> => Success
          /\ Len(portfolio') = Len(portfolio) + 1
          /\ SubSeq(portfolio', 1, Len(portfolio)) = portfolio]_vars
C10_Witness == warning # <<>> /\ Len(portfolio) = 2 /\ pc = "stopped"

====
